---- MODULE Spec2Model ----
(***************************************************************************)
(* A model of modify_dspreset.py: the DSPresetModifier class (loader,      *)
(* transform, backup, save) and the interactive session main().            *)
(*                                                                         *)
(* Python floats are modelled as a binary floating-point format of         *)
(* PrecisionBits significant bits with round-half-to-even, overflow to     *)
(* infinity and NaN, i.e. IEEE-754 double scaled down; the unit 1 stands   *)
(* for the smallest spacing of the values in play.  Attribute values are   *)
(* texts: float() parses them and str() prints a float, and the two texts  *)
(* "10" and "10.0" are different attribute values of the same number.      *)
(***************************************************************************)
EXTENDS Integers, Sequences, FiniteSets, TLC

\* ------------------------------------------------------------- bounds
PrecisionBits == 4      \* significant bits of the float format (53 in CPython)
MaxExponent == 2        \* largest exponent: MaxFinite = (2^P - 1) * 2^MaxExponent
MaxControls == 2        \* elements under the root of an input document
MaxCalls == 2           \* modify_controls calls made by an API client
MaxSaves == 1           \* save calls made by an API client

\* ------------------------------------------------------------- floats
RECURSIVE Pow2(_)
Pow2(n) == IF n = 0 THEN 1 ELSE 2 * Pow2(n - 1)

MaxFinite == (Pow2(PrecisionBits) - 1) * Pow2(MaxExponent)

Fin(n) == [c |-> "fin", n |-> n]
Inf(s) == [c |-> "inf", n |-> s]
NaN == [c |-> "nan", n |-> 0]

AbsInt(m) == IF m < 0 THEN 0 - m ELSE m
SignInt(m) == IF m < 0 THEN 0 - 1 ELSE 1

\* the spacing of the floats around magnitude a: the least power of two q
\* with a < 2^PrecisionBits * q
RECURSIVE Quantum(_, _)
Quantum(a, q) == IF a < Pow2(PrecisionBits) * q THEN q ELSE Quantum(a, 2 * q)

\* the float nearest to the integer m, ties to the even significand,
\* infinity beyond MaxFinite
RoundToFloat(m) ==
    LET a == AbsInt(m)
        q == Quantum(a, 1)
        lower == (a \div q) * q
        rem == a - lower
        r == IF 2 * rem < q THEN lower
             ELSE IF 2 * rem > q THEN lower + q
             ELSE IF (lower \div q) % 2 = 0 THEN lower ELSE lower + q
    IN  IF r > MaxFinite THEN Inf(SignInt(m)) ELSE Fin(SignInt(m) * r)

\* a mutant of FloatAdd: the offset is subtracted
FloatAddNegated(a, b) ==
    IF a.c = "fin" /\ b.c = "fin" THEN RoundToFloat(a.n - b.n) ELSE a

\* Python's a + b on floats
FloatAdd(a, b) ==
    IF a.c = "nan" \/ b.c = "nan" THEN NaN
    ELSE IF a.c = "inf" /\ b.c = "inf" THEN (IF a.n = b.n THEN a ELSE NaN)
    ELSE IF a.c = "inf" THEN a
    ELSE IF b.c = "inf" THEN b
    ELSE RoundToFloat(a.n + b.n)

\* ------------------------------------------------------------- attribute texts
\* An attribute is absent, the text of a decimal integer ("10"), the text
\* str() gives a float ("10.0", "inf", "nan"), or a text float() rejects.
Absent == [k |-> "absent", c |-> "fin", n |-> 0]
IntText(n) == [k |-> "int", c |-> "fin", n |-> n]
FloatText(f) == [k |-> "flt", c |-> f.c, n |-> f.n]
BadText == [k |-> "bad", c |-> "fin", n |-> 0]

\* a mutant of ParseFloat: a text that is no number reads as 0.0
ParseFloatLenient(v) ==
    IF v.k = "flt" THEN [ok |-> TRUE, f |-> [c |-> v.c, n |-> v.n]]
    ELSE IF v.k = "int" THEN [ok |-> TRUE, f |-> RoundToFloat(v.n)]
    ELSE [ok |-> TRUE, f |-> Fin(0)]

\* float(control.get(attr, 0)): ok = FALSE stands for the ValueError
ParseFloat(v) ==
    IF v.k = "absent" THEN [ok |-> TRUE, f |-> Fin(0)]
    ELSE IF v.k = "int" THEN [ok |-> TRUE, f |-> RoundToFloat(v.n)]
    ELSE IF v.k = "flt" THEN [ok |-> TRUE, f |-> [c |-> v.c, n |-> v.n]]
    ELSE [ok |-> FALSE, f |-> Fin(0)]

\* str(value)
Str(f) == FloatText(f)

\* ------------------------------------------------------------- documents
NoType == "<absent>"
TypeNames == {"knob", "unknown"}

Rect(x, y, w, h) == [x |-> x, y |-> y, width |-> w, height |-> h]
RectExample == Rect(IntText(10), IntText(20), IntText(30), IntText(30))
RectBadWidth == Rect(IntText(10), IntText(20), BadText, IntText(30))
RectEdge ==
    Rect(IntText(Pow2(PrecisionBits)), Absent, FloatText(NaN), IntText(MaxFinite))
Rects == {RectExample, RectBadWidth, RectEdge}

Element(tag, type, r) ==
    [tag |-> tag, type |-> type, x |-> r.x, y |-> r.y, width |-> r.width,
     height |-> r.height]
\* the type is tested before the attributes are read, so the three rectangles
\* are tried on one type and the other type values on one rectangle each
ControlElements ==
    {Element("control", "knob", r) : r \in Rects}
        \cup {Element("control", NoType, RectExample), Element("control", "unknown", RectEdge)}
OtherElement == Element("group", "knob", RectExample)
Elements == ControlElements \cup {OtherElement}

RECURSIVE SeqsUpTo(_, _)
SeqsUpTo(S, n) ==
    IF n = 0 THEN {<<>>}
    ELSE LET shorter == SeqsUpTo(S, n - 1)
         IN  shorter \cup {Append(s, e) : s \in {t \in shorter : Len(t) = n - 1}, e \in S}

Offsets(dx, dy, dw, dh) == [x |-> Fin(dx), y |-> Fin(dy), width |-> Fin(dw), height |-> Fin(dh)]
OffsetExample == Offsets(5, 0 - 5, 0, 10)
Negated(off) == [a \in DOMAIN off |-> Fin(0 - off[a].n)]
OffsetInputs == {OffsetExample, Negated(OffsetExample)}


\* ------------------------------------------------------------- files
\* The content of a file: fmt "none" (no such file), "orig" (as the user wrote
\* it), "ser" (as ElementTree serializes it) or "trunc" (cut short by a failed
\* write); nl the line-ending style; wf whether it is well-formed XML.
Content(fmt, nl, wf, root, elems) ==
    [fmt |-> fmt, nl |-> nl, wf |-> wf, root |-> root, elems |-> elems]
NoFile == Content("none", "lf", FALSE, "", <<>>)
Truncated == Content("trunc", "lf", FALSE, "", <<>>)

InPath == "in.dspreset"
Paths == {"in.dspreset", "in.dspreset.backup", "out.dspreset", "in.xml"}
EndsWithDspreset(p) == p \in {"in.dspreset", "out.dspreset"}
BackupPath(p) == IF p = "in.dspreset" THEN "in.dspreset.backup" ELSE "in.xml.backup"
Exists(d, p) == p \in DOMAIN d /\ d[p].fmt # "none"

VARIABLES
    linesep,              \* os.linesep of the platform: "lf" or "crlf"
    disk,                 \* the file system: path -> content
    disk0,                \* the file system when the program started
    file_path,            \* self.file_path
    status,               \* "none" before construction, "ok", or the error raised
    tree,                 \* self.tree: the elements under the root, document order
    ui_controls,          \* self.ui_controls: references (indices) into tree
    control_types_found,  \* self.control_types_found
    call,                 \* the last modify_controls call: arguments and results
    prior,                \* the call before it, when call repeats or inverts it
    lastSave,             \* the last save call: arguments, outcome, disk before
    ncalls, nsaves,       \* calls made so far
    pc, selected_types, offsets, outcome,  \* main(): position and locals
    log                   \* main(): the transform and persistence steps taken

vars == <<linesep, disk, disk0, file_path, status, tree, ui_controls,
          control_types_found, call, prior, lastSave, ncalls, nsaves, pc, selected_types,
          offsets, outcome, log>>
envVars == <<linesep, disk0>>

objVars == <<tree, ui_controls, control_types_found>>
mainVars == <<pc, selected_types, offsets, outcome, log>>

\* ------------------------------------------------------------- _load_file
\* a mutant of IndexKey: the type attribute is used as it is
IndexKeyRaw(el) == el.type

\* control.get('type', 'unknown')
IndexKey(el) == IF el.type = NoType THEN "unknown" ELSE el.type

\* self.root.findall('.//control')
RECURSIVE FindAllControls(_, _)
FindAllControls(elems, i) ==
    IF i > Len(elems) THEN <<>>
    ELSE IF elems[i].tag = "control" THEN <<i>> \o FindAllControls(elems, i + 1)
    ELSE FindAllControls(elems, i + 1)

\* the loop that counts the control types
RECURSIVE CountTypes(_, _, _, _)
CountTypes(elems, refs, i, idx) ==
    IF i > Len(refs) THEN idx
    ELSE LET key == IndexKey(elems[refs[i]])
             old == IF key \in DOMAIN idx THEN idx[key] ELSE 0
         IN  CountTypes(elems, refs, i + 1,
                        [t \in DOMAIN idx \cup {key} |-> IF t = key THEN old + 1 ELSE idx[t]])

\* the result of DSPresetModifier(path) on the file system d
load_file(path, d) ==
    LET failed(e) == [status |-> e, tree |-> <<>>, ui_controls |-> <<>>,
                      control_types_found |-> <<>>]
    IN  IF ~EndsWithDspreset(path) THEN failed("ValueError")
        ELSE IF ~Exists(d, path) THEN failed("FileNotFoundError")
        ELSE IF ~d[path].wf THEN failed("ValueError")
        ELSE IF d[path].root # "DecentSampler" THEN failed("ValueError")
        ELSE LET refs == FindAllControls(d[path].elems, 1)
             IN  [status |-> "ok", tree |-> d[path].elems, ui_controls |-> refs,
                  control_types_found |-> CountTypes(d[path].elems, refs, 1, <<>>)]

\* ------------------------------------------------------------- modify_controls
\* a mutant of IsSelected: an absent type counts as "unknown", as in the index
IsSelectedDefaulting(el, sel) == IndexKey(el) \in sel

\* control.get('type') in selected_types: an absent type is None, which is
\* in no list of type names
IsSelected(el, sel) == el.type # NoType /\ el.type \in sel

Values(x, y, w, h) == [x |-> x, y |-> y, width |-> w, height |-> h]

\* a mutant of ControlStep: a control that fails to parse is not counted
ControlStepUncounted(el, ref, sel, off, acc) ==
    IF ~IsSelected(el, sel) THEN acc
    ELSE LET px == ParseFloat(el.x)
             py == ParseFloat(el.y)
             pw == ParseFloat(el.width)
             ph == ParseFloat(el.height)
         IN  IF px.ok /\ py.ok /\ pw.ok /\ ph.ok
             THEN [found |-> acc.found + 1, skipped |-> acc.skipped,
                   changes |-> Append(acc.changes,
                       [ref |-> ref, type |-> el.type,
                        old |-> Values(px.f, py.f, pw.f, ph.f),
                        new |-> Values(FloatAdd(px.f, off.x), FloatAdd(py.f, off.y),
                                       FloatAdd(pw.f, off.width),
                                       FloatAdd(ph.f, off.height))])]
             ELSE acc

\* one iteration of the loop over self.ui_controls
ControlStep(el, ref, sel, off, acc) ==
    IF ~IsSelected(el, sel) THEN acc
    ELSE LET px == ParseFloat(el.x)
             py == ParseFloat(el.y)
             pw == ParseFloat(el.width)
             ph == ParseFloat(el.height)
         IN  IF px.ok /\ py.ok /\ pw.ok /\ ph.ok
             THEN [found |-> acc.found + 1, skipped |-> acc.skipped,
                   changes |-> Append(acc.changes,
                       [ref |-> ref, type |-> el.type,
                        old |-> Values(px.f, py.f, pw.f, ph.f),
                        new |-> Values(FloatAdd(px.f, off.x), FloatAdd(py.f, off.y),
                                       FloatAdd(pw.f, off.width),
                                       FloatAdd(ph.f, off.height))])]
             ELSE [found |-> acc.found + 1, skipped |-> acc.skipped + 1,
                   changes |-> acc.changes]

RECURSIVE ScanControls(_, _, _, _, _, _)
ScanControls(t, refs, sel, off, i, acc) ==
    IF i > Len(refs) THEN acc
    ELSE ScanControls(t, refs, sel, off, i + 1,
                      ControlStep(t[refs[i]], refs[i], sel, off, acc))

\* a mutant of SetAttributes: width and height are written to each other
SetAttributesSwapped(el, new) ==
    [el EXCEPT !.x = Str(new.x), !.y = Str(new.y), !.width = Str(new.height),
               !.height = Str(new.width)]

\* control.set(attr, str(value)) for the four attributes of one change
SetAttributes(el, new) ==
    [el EXCEPT !.x = Str(new.x), !.y = Str(new.y), !.width = Str(new.width),
               !.height = Str(new.height)]

RECURSIVE WriteChanges(_, _, _)
WriteChanges(t, changes, i) ==
    IF i > Len(changes) THEN t
    ELSE WriteChanges([t EXCEPT ![changes[i].ref] = SetAttributes(@, changes[i].new)],
                      changes, i + 1)

\* a mutant of ApplyChanges: the preview flag is ignored
ApplyChangesAlways(t, changes, preview) ==
    [tree |-> WriteChanges(t, changes, 1), modified |-> Len(changes)]

\* "if not preview and changes:" and the loop under it
ApplyChanges(t, changes, preview) ==
    IF ~preview /\ changes # <<>>
    THEN [tree |-> WriteChanges(t, changes, 1), modified |-> Len(changes)]
    ELSE [tree |-> t, modified |-> 0]

\* modify_controls: the tree afterwards, the statistics returned and the
\* change list handed to _print_changes
modify_controls(t, refs, sel, off, preview) ==
    LET scan == ScanControls(t, refs, sel, off, 1,
                             [found |-> 0, skipped |-> 0, changes |-> <<>>])
        done == ApplyChanges(t, scan.changes, preview)
    IN  [tree |-> done.tree,
         stats |-> [found |-> scan.found, modified |-> done.modified,
                    skipped |-> scan.skipped],
         changes |-> scan.changes]

NoStats == [found |-> 0, modified |-> 0, skipped |-> 0]
NoOffsets == Offsets(0, 0, 0, 0)
NoCall == [op |-> "none", sel |-> {}, off |-> NoOffsets, preview |-> FALSE,
           before |-> <<>>, stats |-> NoStats, changes |-> <<>>]

\* the record of a call and whether it repeats the preview before it, or
\* inverts the apply pass before it
CallRecord(sel, off, preview, before, r) ==
    [op |-> "modify", sel |-> sel, off |-> off, preview |-> preview,
     before |-> before, stats |-> r.stats, changes |-> r.changes]
Repeats(c, sel, off, preview) ==
    c.op = "modify" /\ c.preview /\ ~preview /\ c.sel = sel /\ c.off = off
Inverts(c, sel, off, preview) ==
    c.op = "modify" /\ ~c.preview /\ ~preview /\ c.sel = sel /\ c.off = Negated(off)

\* the effect of self.modify_controls(sel, off, preview) on the state
DoModify(sel, off, preview) ==
    LET r == modify_controls(tree, ui_controls, sel, off, preview)
    IN  /\ tree' = r.tree
        /\ call' = CallRecord(sel, off, preview, tree, r)
        /\ prior' = IF Repeats(call, sel, off, preview) \/ Inverts(call, sel, off, preview)
                    THEN call ELSE NoCall
        /\ ncalls' = ncalls + 1
        /\ UNCHANGED <<ui_controls, control_types_found>>

NoOutput == ""
NoSave == [op |-> "none", path |-> NoOutput, io |-> "ok", before |-> <<>>, doc |-> <<>>,
           raised |-> FALSE]

\* ------------------------------------------------------------- an API client
\* modifier = DSPresetModifier(file_path)
Load ==
    /\ status = "none"
    /\ pc = "api"
    /\ LET r == load_file(file_path, disk)
       IN  /\ status' = r.status
           /\ tree' = r.tree
           /\ ui_controls' = r.ui_controls
           /\ control_types_found' = r.control_types_found
    /\ UNCHANGED <<envVars, disk, file_path, call, prior, lastSave, ncalls, nsaves, mainVars>>

\* modifier.modify_controls(selected_types, dx, dy, dw, dh, preview)
ModifyControlsCall ==
    /\ status = "ok"
    /\ pc = "api"
    /\ ncalls + nsaves < MaxCalls
    /\ \E sel \in SUBSET TypeNames, off \in OffsetInputs, preview \in BOOLEAN :
          DoModify(sel, off, preview)
    /\ UNCHANGED <<envVars, disk, file_path, status, lastSave, nsaves, mainVars>>

\* the input files: documents of up to MaxControls elements, and four files
\* the loader rejects
Documents == SeqsUpTo(Elements, MaxControls)
GoodFile(nl, elems) == Content("orig", nl, TRUE, "DecentSampler", elems)
SampleDoc == <<Element("control", "knob", RectExample)>>
DiskWith(c) == [p \in Paths |-> IF p = InPath THEN c
                                ELSE IF p = "in.xml" THEN GoodFile("lf", SampleDoc)
                                ELSE NoFile]
RejectedFiles ==
    {NoFile, Content("orig", "lf", FALSE, "", <<>>),
     Content("orig", "lf", TRUE, "OtherRoot", SampleDoc)}

InitObject ==
    /\ status = "none"
    /\ tree = <<>>
    /\ ui_controls = <<>>
    /\ control_types_found = <<>>
    /\ call = NoCall
    /\ prior = NoCall
    /\ lastSave = NoSave
    /\ ncalls = 0
    /\ nsaves = 0
    /\ selected_types = {}
    /\ offsets = NoOffsets
    /\ outcome = "running"
    /\ log = <<>>
    /\ disk0 = disk

Init ==
    /\ linesep = "lf"
    /\ \/ /\ file_path = InPath
          /\ \E elems \in Documents : disk = DiskWith(GoodFile("lf", elems))
       \/ /\ file_path = InPath
          /\ \E c \in RejectedFiles : disk = DiskWith(c)
       \/ /\ file_path = "in.xml"
          /\ disk = DiskWith(NoFile)
    /\ pc = "api"
    /\ InitObject

Next == Load \/ ModifyControlsCall

Spec == Init /\ [][Next]_vars


\* ------------------------------------------------------------- claims: the transform
\* what the claims say of a call, stated on the document before and after it
Applied == call.op = "modify" /\ ~call.preview
Previewed == call.op = "modify" /\ call.preview
Refs(t) == {i \in 1..Len(t) : t[i].tag = "control"}
Numeric(v) == v.k # "bad"
AllNumeric(el) == Numeric(el.x) /\ Numeric(el.y) /\ Numeric(el.width) /\ Numeric(el.height)
SelectedRefs(c) == {i \in Refs(c.before) : c.before[i].type \in c.sel}
ParsedRefs(c) == {i \in SelectedRefs(c) : AllNumeric(c.before[i])}
FailedRefs(c) == SelectedRefs(c) \ ParsedRefs(c)
ChangedRefs(c) == {c.changes[j].ref : j \in 1..Len(c.changes)}
\* the number an attribute text stands for, 0 for an absent attribute
NumberOf(v) ==
    IF v.k = "absent" THEN Fin(0)
    ELSE IF v.k = "int" THEN RoundToFloat(v.n)
    ELSE [c |-> v.c, n |-> v.n]
\* a float plus a finite offset
Plus(a, d) == IF a.c = "fin" THEN RoundToFloat(a.n + d.n) ELSE a
IsFloatText(v, f) == v.k = "flt" /\ v.c = f.c /\ v.n = f.n
Rewritten(el) == el.x.k = "flt" /\ el.y.k = "flt" /\ el.width.k = "flt" /\ el.height.k = "flt"
NewValues(c) == [j \in 1..Len(c.changes) |-> <<c.changes[j].ref, c.changes[j].new>>]

\* C1: a preview leaves every attribute of every element as it was and returns
\* modified = 0, and the apply pass made right after it with the same selection
\* and offsets computes the new values the preview computed.
C1_PreviewIsPure ==
    /\ Previewed => tree = call.before /\ call.stats.modified = 0
    /\ (Applied /\ prior.op = "modify" /\ prior.preview)
          => NewValues(call) = NewValues(prior)

C1_Witness ==
    /\ Applied /\ prior.op = "modify" /\ prior.preview
    /\ call.stats.modified >= 1
    /\ tree # call.before

\* C2: in an apply pass a selected control with a text that is no number in
\* x, y, width or height adds exactly 1 to skipped and keeps its four attributes,
\* and every selected control whose attributes are numbers is still rewritten,
\* whether it comes before or after the failing one.
C2_ParseFailureIsolated ==
    Applied =>
        /\ call.stats.skipped = Cardinality(FailedRefs(call))
        /\ \A i \in FailedRefs(call) : tree[i] = call.before[i]
        /\ \A i \in ParsedRefs(call) : Rewritten(tree[i]) /\ i \in ChangedRefs(call)
        /\ call.stats.modified = Cardinality(ParsedRefs(call))

C2_Witness ==
    /\ Applied
    /\ Len(tree) = 2
    /\ FailedRefs(call) = {1}
    /\ ParsedRefs(call) = {2}
    /\ call.before[1].x.k = "int" /\ call.before[1].width.k = "bad"
    /\ tree[1] = call.before[1]
    /\ Rewritten(tree[2])
    /\ call.stats = [found |-> 2, modified |-> 1, skipped |-> 1]

\* C3: in preview and in apply mode, an element that is no control of a
\* selected type (a control without a type attribute included) is not counted
\* in found, modified or skipped, is not in the change list and keeps all its
\* attributes.
C3_UnselectedUntouched ==
    call.op = "modify" =>
        /\ call.stats.found <= Cardinality(SelectedRefs(call))
        /\ call.stats.modified <= Cardinality(SelectedRefs(call))
        /\ call.stats.skipped <= Cardinality(SelectedRefs(call))
        /\ ChangedRefs(call) \subseteq SelectedRefs(call)
        /\ \A i \in 1..Len(tree) : i \notin SelectedRefs(call) => tree[i] = call.before[i]

C3_Witness ==
    /\ Applied
    /\ call.sel = {"knob", "unknown"}
    /\ Len(tree) = 2
    /\ call.before[1].tag = "control" /\ call.before[1].type = NoType
    /\ AllNumeric(call.before[1])
    /\ tree[1] = call.before[1]
    /\ call.stats = [found |-> 1, modified |-> 1, skipped |-> 0]

\* C4: after an apply pass every selected control whose four attributes are
\* numbers has x, y, width and height present and equal to the previous value
\* (0 when absent) plus dx, dy, dw, dh; the knob (10, 20, 30, 30) with offsets
\* (5, -5, 0, 10) ends as (15, 15, 30, 40) with found = 1, modified = 1,
\* skipped = 0.
C4_OffsetsAdded ==
    Applied =>
        /\ \A i \in ParsedRefs(call) :
              /\ IsFloatText(tree[i].x, Plus(NumberOf(call.before[i].x), call.off.x))
              /\ IsFloatText(tree[i].y, Plus(NumberOf(call.before[i].y), call.off.y))
              /\ IsFloatText(tree[i].width,
                             Plus(NumberOf(call.before[i].width), call.off.width))
              /\ IsFloatText(tree[i].height,
                             Plus(NumberOf(call.before[i].height), call.off.height))
        /\ (/\ call.before = <<Element("control", "knob", RectExample)>>
            /\ call.sel = {"knob"}
            /\ call.off = OffsetExample)
              => /\ tree[1].x = FloatText(Fin(15)) /\ tree[1].y = FloatText(Fin(15))
                 /\ tree[1].width = FloatText(Fin(30)) /\ tree[1].height = FloatText(Fin(40))
                 /\ call.stats = [found |-> 1, modified |-> 1, skipped |-> 0]

C4_Witness ==
    /\ Applied
    /\ call.before = <<Element("control", "knob", RectExample)>>
    /\ call.sel = {"knob"}
    /\ call.off = OffsetExample
    /\ tree[1].x = FloatText(Fin(15))

\* C5: found is the number of controls of a selected type, skipped the number
\* of those that failed to parse, modified the number rewritten: all that
\* parsed in apply mode, none in preview mode; so found = modified + skipped
\* in apply mode and skipped <= found in preview mode.
C5_CountsAgree ==
    call.op = "modify" =>
        /\ call.stats.found = Cardinality(SelectedRefs(call))
        /\ call.stats.skipped = Cardinality(FailedRefs(call))
        /\ Applied => /\ call.stats.modified = Cardinality(ParsedRefs(call))
                      /\ \A i \in ParsedRefs(call) : Rewritten(tree[i])
                      /\ \A i \in 1..Len(tree) :
                            i \notin ParsedRefs(call) => tree[i] = call.before[i]
                      /\ call.stats.found = call.stats.modified + call.stats.skipped
        /\ Previewed => call.stats.modified = 0 /\ call.stats.skipped <= call.stats.found

C5_Witness ==
    /\ Applied
    /\ call.stats = [found |-> 2, modified |-> 1, skipped |-> 1]
    /\ Cardinality(SelectedRefs(call)) = 2

\* C6 as claimed: an apply pass with (dx, dy, dw, dh) followed by one with the
\* negated offsets and the same selection restores the numbers of x, y, width
\* and height of every control the first pass modified, and both passes modify
\* and skip the same controls.
InverseOfApply == Applied /\ prior.op = "modify" /\ ~prior.preview
SameControls ==
    /\ ChangedRefs(call) = ChangedRefs(prior)
    /\ FailedRefs(call) = FailedRefs(prior)
C6_InverseRestores ==
    InverseOfApply =>
        /\ SameControls
        /\ \A j \in 1..Len(prior.changes) :
              LET el == tree[prior.changes[j].ref]
                  old == prior.changes[j].old
              IN  /\ NumberOf(el.x) = old.x /\ NumberOf(el.y) = old.y
                  /\ NumberOf(el.width) = old.width /\ NumberOf(el.height) = old.height

\* C6 as amended: the second pass restores each of x, y, width and height whose
\* addition in the first pass was exact (a finite value, not rounded and not
\* overflowed), and both passes modify and skip the same controls.
ExactSum(old, new, d) == old.c = "fin" /\ new.c = "fin" /\ new.n = old.n + d.n
C6_InverseRestoresExactSums ==
    InverseOfApply =>
        /\ SameControls
        /\ \A j \in 1..Len(prior.changes) :
              LET el == tree[prior.changes[j].ref]
                  old == prior.changes[j].old
                  new == prior.changes[j].new
              IN  /\ ExactSum(old.x, new.x, prior.off.x) => NumberOf(el.x) = old.x
                  /\ ExactSum(old.y, new.y, prior.off.y) => NumberOf(el.y) = old.y
                  /\ ExactSum(old.width, new.width, prior.off.width)
                        => NumberOf(el.width) = old.width
                  /\ ExactSum(old.height, new.height, prior.off.height)
                        => NumberOf(el.height) = old.height

C6_Witness ==
    /\ InverseOfApply
    /\ prior.off = OffsetExample
    /\ prior.before = <<Element("control", "knob", RectExample)>>
    /\ call.stats.modified = 1
    /\ tree[1].x = FloatText(Fin(10)) /\ tree[1].height = FloatText(Fin(30))

\* C10 as claimed: for every key t of control_types_found, modify_controls
\* with selected_types = [t] finds control_types_found[t] controls, the key
\* "unknown" of the controls without a type attribute included.
C10_IndexMatchesTransform ==
    \A t \in DOMAIN control_types_found :
        (call.op = "modify" /\ call.sel = {t}) => call.stats.found = control_types_found[t]


\* ------------------------------------------------------------- create_backup, save
\* What the environment does to a save: nothing, or a failure to open or to
\* write the backup, or a failure to open or to write the target.
IoOutcomes == {"ok", "backup_open_fails", "backup_write_fails", "write_open_fails",
               "write_fails"}
BackupFailures == {"backup_open_fails", "backup_write_fails"}
OutputPaths == {"in.dspreset", "in.dspreset.backup", "out.dspreset"}

\* backup.write(source.read()) on files opened in text mode: reading turns
\* every line ending into "\n" and writing turns "\n" into os.linesep
TextCopy(c, ls) == IF c.fmt \in {"orig", "ser"} THEN [c EXCEPT !.nl = ls] ELSE c

\* self.tree.write(save_path, encoding='utf-8', xml_declaration=True)
Serialized(t) == Content("ser", "lf", TRUE, "DecentSampler", t)

\* create_backup: the disk afterwards and whether IOError was raised
create_backup(d, path, ls, io) ==
    IF ~Exists(d, path) \/ io = "backup_open_fails" THEN [disk |-> d, raised |-> TRUE]
    ELSE IF io = "backup_write_fails"
    THEN [disk |-> [d EXCEPT ![BackupPath(path)] = Truncated], raised |-> TRUE]
    ELSE [disk |-> [d EXCEPT ![BackupPath(path)] = TextCopy(d[path], ls)],
          raised |-> FALSE]

\* save(output_path): the disk afterwards and whether IOError was raised
save(d, t, path, output_path, ls, io) ==
    LET save_path == IF output_path = NoOutput THEN path ELSE output_path
        backed == IF output_path = NoOutput THEN create_backup(d, path, ls, io)
                  ELSE [disk |-> d, raised |-> FALSE]
    IN  IF backed.raised THEN backed
        ELSE IF io = "write_open_fails" THEN [disk |-> backed.disk, raised |-> TRUE]
        ELSE IF io = "write_fails"
        THEN [disk |-> [backed.disk EXCEPT ![save_path] = Truncated], raised |-> TRUE]
        ELSE [disk |-> [backed.disk EXCEPT ![save_path] = Serialized(t)],
              raised |-> FALSE]

\* the effect of self.save(output_path) on the state
DoSave(output_path, io) ==
    LET r == save(disk, tree, file_path, output_path, linesep, io)
    IN  /\ disk' = r.disk
        /\ lastSave' = [op |-> "save", path |-> output_path, io |-> io, before |-> disk,
                        doc |-> tree, raised |-> r.raised]
        /\ nsaves' = nsaves + 1

\* modifier.save() or modifier.save(output_path)
SaveCall ==
    /\ status = "ok"
    /\ pc = "api"
    /\ nsaves < MaxSaves
    /\ ncalls + nsaves < MaxCalls
    /\ \E output_path \in {NoOutput} \cup OutputPaths, io \in IoOutcomes :
          /\ output_path # NoOutput => io \notin BackupFailures
          /\ DoSave(output_path, io)
    /\ UNCHANGED <<envVars, file_path, status, objVars, call, prior, ncalls, mainVars>>

\* the input files of the persistence runs: either line-ending style, on
\* either platform
SavedElements ==
    {Element("control", "knob", RectExample), Element("control", NoType, RectBadWidth),
     OtherElement}
InitSave ==
    /\ linesep \in {"lf", "crlf"}
    /\ file_path = InPath
    /\ \/ \E elems \in SeqsUpTo(SavedElements, MaxControls), nl \in {"lf", "crlf"} :
             disk = DiskWith(GoodFile(nl, elems))
       \/ \E c \in RejectedFiles : disk = DiskWith(c)
    /\ pc = "api"
    /\ InitObject

NextSave == Load \/ ModifyControlsCall \/ SaveCall

SaveSpec == InitSave /\ [][NextSave]_vars

\* ------------------------------------------------------------- claims: load and save
Saved == lastSave.op = "save"
BackupOf(d) == d[BackupPath(file_path)]

\* C7 as claimed: save() without an output path writes to the backup the
\* content the file had just before the save and then overwrites the file with
\* the serialized document; a failing backup write raises IOError and leaves
\* the file as it was; save(output_path) to another path writes no backup and
\* leaves the file as it was.
C7_BackupIsPreSaveContent ==
    Saved =>
        /\ (lastSave.path = NoOutput /\ ~lastSave.raised)
              => /\ BackupOf(disk) = lastSave.before[file_path]
                 /\ disk[file_path] = Serialized(lastSave.doc)
        /\ (lastSave.path = NoOutput /\ lastSave.io \in BackupFailures)
              => lastSave.raised /\ disk[file_path] = lastSave.before[file_path]
        /\ lastSave.path \notin {NoOutput, file_path, BackupPath(file_path)}
              => /\ BackupOf(disk) = BackupOf(lastSave.before)
                 /\ disk[file_path] = lastSave.before[file_path]

\* ------------------------------------------------------------- main
\* what the user types at the path prompt
PathInputs == {"exit", "in.dspreset", "in.xml", "out.dspreset"}

Finish(how) == pc' = "done" /\ outcome' = how

\* the loop "Enter path to .dspreset file"
MainPromptPath ==
    /\ pc = "prompt_path"
    /\ \E typed \in PathInputs :
          IF typed = "exit" THEN Finish("exit") /\ UNCHANGED file_path
          ELSE IF Exists(disk, typed) /\ EndsWithDspreset(typed)
          THEN file_path' = typed /\ pc' = "construct" /\ UNCHANGED outcome
          ELSE UNCHANGED <<file_path, pc, outcome>>
    /\ UNCHANGED <<envVars, disk, status, objVars, call, prior, lastSave, ncalls, nsaves,
                   selected_types, offsets, log>>

\* modifier = DSPresetModifier(file_path); an exception ends the session
MainConstruct ==
    /\ pc = "construct"
    /\ LET r == load_file(file_path, disk)
       IN  /\ status' = r.status
           /\ tree' = r.tree
           /\ ui_controls' = r.ui_controls
           /\ control_types_found' = r.control_types_found
           /\ IF r.status = "ok" THEN pc' = "select" /\ UNCHANGED outcome
              ELSE Finish("error")
    /\ UNCHANGED <<envVars, disk, file_path, call, prior, lastSave, ncalls, nsaves,
                   selected_types, offsets, log>>

\* one y/n answer for each key of control_types_found
MainSelectTypes ==
    /\ pc = "select"
    /\ \E chosen \in SUBSET DOMAIN control_types_found :
          /\ selected_types' = chosen
          /\ IF chosen = {} THEN Finish("no_selection")
             ELSE pc' = "offsets" /\ UNCHANGED outcome
    /\ UNCHANGED <<envVars, disk, file_path, status, objVars, call, prior, lastSave,
                   ncalls, nsaves, offsets, log>>

\* four float(input(...)): a text that is no number raises ValueError
MainReadOffsets ==
    /\ pc = "offsets"
    /\ \/ \E off \in OffsetInputs :
             offsets' = off /\ pc' = "preview" /\ UNCHANGED outcome
       \/ Finish("error") /\ UNCHANGED offsets
    /\ UNCHANGED <<envVars, disk, file_path, status, objVars, call, prior, lastSave,
                   ncalls, nsaves, selected_types, log>>

\* the preview pass and the test of stats['found']
MainPreview ==
    /\ pc = "preview"
    /\ DoModify(selected_types, offsets, TRUE)
    /\ log' = Append(log, "preview")
    /\ IF call'.stats.found = 0 THEN Finish("no_match")
       ELSE pc' = "confirm" /\ UNCHANGED outcome
    /\ UNCHANGED <<envVars, disk, file_path, status, lastSave, nsaves, selected_types,
                   offsets>>

\* a mutant of MainConfirm: the answer is not looked at
MainConfirmAnyAnswer ==
    /\ pc = "confirm"
    /\ \E answer \in {"y", "n"} :
          /\ log' = Append(log, answer)
          /\ pc' = "apply" /\ UNCHANGED outcome
    /\ UNCHANGED <<envVars, disk, file_path, status, objVars, call, prior, lastSave,
                   ncalls, nsaves, selected_types, offsets>>

\* "Apply these changes? (y/n)"
MainConfirm ==
    /\ pc = "confirm"
    /\ \E answer \in {"y", "n"} :
          /\ log' = Append(log, answer)
          /\ IF answer = "y" THEN pc' = "apply" /\ UNCHANGED outcome
             ELSE Finish("declined")
    /\ UNCHANGED <<envVars, disk, file_path, status, objVars, call, prior, lastSave,
                   ncalls, nsaves, selected_types, offsets>>

\* the apply pass
MainApply ==
    /\ pc = "apply"
    /\ DoModify(selected_types, offsets, FALSE)
    /\ log' = Append(log, "apply")
    /\ pc' = "save"
    /\ UNCHANGED <<envVars, disk, file_path, status, lastSave, nsaves, selected_types,
                   offsets, outcome>>

\* modifier.save(); an IOError ends the session with a message
MainSave ==
    /\ pc = "save"
    /\ \E io \in IoOutcomes : DoSave(NoOutput, io)
    /\ log' = Append(log, "save")
    /\ Finish(IF lastSave'.raised THEN "error" ELSE "saved")
    /\ UNCHANGED <<envVars, file_path, status, objVars, call, prior, ncalls,
                   selected_types, offsets>>

InitMain ==
    /\ linesep \in {"lf", "crlf"}
    /\ file_path = ""
    /\ \/ \E elems \in Documents, nl \in {"lf", "crlf"} :
             disk = DiskWith(GoodFile(nl, elems))
       \/ \E c \in RejectedFiles : disk = DiskWith(c)
    /\ pc = "prompt_path"
    /\ InitObject

NextMain ==
    \/ MainPromptPath
    \/ MainConstruct
    \/ MainSelectTypes
    \/ MainReadOffsets
    \/ MainPreview
    \/ MainConfirm
    \/ MainApply
    \/ MainSave

MainSpec == InitMain /\ [][NextMain]_vars

\* ------------------------------------------------------------- claims: the session
IsPrefix(a, b) == Len(a) <= Len(b) /\ a = SubSeq(b, 1, Len(a))

\* C9: the apply pass and the save happen only after a preview with the same
\* selection and offsets that matched a control and a yes to the prompt, in the
\* order preview, confirm, apply, save; a session that ends at the exit word,
\* with no type selected, with no control matched or with a no leaves the
\* document and the disk as they were.
C9_ApplyOnlyAfterConfirmedPreview ==
    /\ IsPrefix(log, <<"preview", "y", "apply", "save">>) \/ log = <<"preview", "n">>
    /\ Applied => /\ SubSeq(log, 1, 3) = <<"preview", "y", "apply">>
                  /\ prior.op = "modify" /\ prior.preview
                  /\ prior.sel = call.sel /\ prior.off = call.off
                  /\ prior.stats.found > 0
    /\ disk # disk0 => log = <<"preview", "y", "apply", "save">>
    /\ Saved => Applied /\ lastSave.doc = tree
    /\ outcome \in {"exit", "no_selection", "no_match", "declined"}
          => /\ disk = disk0
             /\ ~Applied /\ ~Saved
             /\ status = "ok" => tree = disk0[file_path].elems

C9_Witness ==
    /\ pc = "done" /\ outcome = "saved"
    /\ log = <<"preview", "y", "apply", "save">>
    /\ call.stats.modified >= 1
    /\ disk[file_path] = Serialized(tree)
    /\ tree # disk0[file_path].elems

\* C8: a file with a DecentSampler root loads (with no control element the
\* control list is empty), control_types_found[t] is the number of control
\* elements whose type is t, an absent type counted under "unknown", the counts
\* sum to the number of control elements, and later modify_controls and save
\* calls leave the index as it is.
TypedRefs(t) ==
    {i \in Refs(tree) : (IF tree[i].type = NoType THEN "unknown" ELSE tree[i].type) = t}
RECURSIVE SumOver(_, _)
SumOver(f, S) ==
    IF S = {} THEN 0 ELSE LET t == CHOOSE u \in S : TRUE IN f[t] + SumOver(f, S \ {t})
Loadable(d, path) ==
    EndsWithDspreset(path) /\ Exists(d, path) /\ d[path].wf /\ d[path].root = "DecentSampler"
C8_IndexCountsControls ==
    /\ status \notin {"none", "ok"} => ~Loadable(disk, file_path)
    /\ status = "ok" =>
          /\ ui_controls = FindAllControls(tree, 1)
          /\ DOMAIN control_types_found = {t \in TypeNames : TypedRefs(t) # {}}
          /\ \A t \in DOMAIN control_types_found :
                control_types_found[t] = Cardinality(TypedRefs(t))
          /\ SumOver(control_types_found, DOMAIN control_types_found)
                = Cardinality(Refs(tree))

C8_Witness ==
    /\ status = "ok"
    /\ Applied /\ call.stats.modified = 1
    /\ Saved /\ ~lastSave.raised
    /\ control_types_found = [t \in {"knob", "unknown"} |-> 1]
    /\ \E i \in Refs(tree) : tree[i].type = NoType

====
